---- MODULE Spec2Model ----
(***************************************************************************)
(* DataYoti MQTT ingestor (src/ingestor/app.py): topic routing, payload    *)
(* validation, the device authorization cache with its TTL refresh, the    *)
(* timestamp normalizer and the upsert writes into sensor_data and         *)
(* device_heartbeats, together with the store faults the code reacts to.   *)
(***************************************************************************)
EXTENDS Integers, Sequences, FiniteSets, TLC

(***************************************************************************)
(* Text.  A Python str is a sequence of tokens; a token [k, v] stands for  *)
(* one fixed piece of text:                                                *)
(*   Lit(s)            the literal text s                                  *)
(*   Tok("date", d)    "YYYY-MM-DD" of day d counted from 1970-01-01       *)
(*   Tok("time", s)    "hh:mm:ss" of second s of the day                   *)
(*   Tok("frac3", u)   ".fff", Tok("frac6", u) ".ffffff" (u microseconds)  *)
(*   Tok("off+", s)    "+hh:mm", Tok("off-", s) "-hh:mm" (s seconds)       *)
(*   Tok("numlit", n)  the decimal numeral of n                            *)
(* The empty sequence is the empty string.                                 *)
(***************************************************************************)
Tok(k, v) == [k |-> k, v |-> v]
Lit(s) == Tok(s, 0)
Str(s) == <<Lit(s)>>
EmptyStr == << >>

\* The characters '+', '-', 'T', 'Z' that the text of a token contains.
TokChars(tok) ==
    CASE tok.k = "date" -> {"-"}
      [] tok.k = "off+" -> {"+"}
      [] tok.k = "off-" -> {"-"}
      [] tok.k = "T" -> {"T"}
      [] tok.k = "Z" -> {"Z"}
      [] tok.k = "NOT_A_TIME" -> {"T"}
      [] OTHER -> {}

\* c in s
HasChar(s, c) == \E i \in 1..Len(s) : c \in TokChars(s[i])

\* s.endswith(text of tok)
EndsWith(s, tok) == Len(s) > 0 /\ s[Len(s)] = tok

\* s.replace(text of a, text of b)
Replace(s, a, b) == [i \in 1..Len(s) |-> IF s[i] = a THEN b ELSE s[i]]

(***************************************************************************)
(* JSON values as json.loads returns them; "missing" marks an absent key.  *)
(***************************************************************************)
JNull == [t |-> "null", s |-> EmptyStr, n |-> 0]
JMissing == [t |-> "missing", s |-> EmptyStr, n |-> 0]
JStr(s) == [t |-> "str", s |-> s, n |-> 0]
JNum(n) == [t |-> "num", s |-> EmptyStr, n |-> n]
JBool(b) == [t |-> "bool", s |-> EmptyStr, n |-> IF b THEN 1 ELSE 0]

\* dict.get(key): None for an absent key
Get(p, key) == IF p.f[key].t = "missing" THEN JNull ELSE p.f[key]

\* dict.get(key, default)
GetDefault(p, key, default) == IF p.f[key].t = "missing" THEN default ELSE p.f[key]

\* Python truth value
Truthy(v) ==
    CASE v.t = "str" -> v.s # EmptyStr
      [] v.t = "num" -> v.n # 0
      [] v.t = "bool" -> v.n # 0
      [] OTHER -> FALSE

\* float(v): [ok, n]; ok = FALSE is a ValueError or TypeError
Float(v) ==
    CASE v.t = "num" -> [ok |-> TRUE, n |-> v.n]
      [] v.t = "bool" -> [ok |-> TRUE, n |-> v.n]
      [] v.t = "str" /\ Len(v.s) = 1 /\ v.s[1].k = "numlit" -> [ok |-> TRUE, n |-> v.s[1].v]
      [] OTHER -> [ok |-> FALSE, n |-> 0]

(***************************************************************************)
(* Bounds of the model.                                                    *)
(***************************************************************************)
\* time.time() when the process starts (2024-03-01 10:00:00 UTC)
StartTime == 1709287200
\* seconds by which the clock advances in one step
Quantum == 300
\* number of clock steps
MaxTicks == 2
\* number of messages delivered
MaxMessages == 2

\* self.cache_ttl
cache_ttl == 300

SecondsPerDay == 24 * 60 * 60

VARIABLES
    now,                \* time.time(), NOW() and datetime.now(timezone.utc)
    registry,           \* table devices: device_mac_addr -> site_ref
    storeUp,            \* the store accepts new connections
    pc,                 \* "Stopped", "Running", "Exited" or "Aborted" (exit(1))
    connection,         \* self.db.connection: "None", "open", "broken", "closed"
    device_cache,       \* self.db.device_cache
    cache_last_refresh, \* self.db.cache_last_refresh
    sensor_data,        \* table sensor_data, a set of rows
    device_heartbeats,  \* table device_heartbeats, a set of rows
    refresh_failed,     \* the last run of refresh_device_cache failed
    added_at,           \* when the row in table devices was inserted
    delivered,          \* number of messages delivered so far
    msg,                \* the message the last step delivered, if it delivered one
    run                 \* what the last step did to handle it

vars == <<now, registry, storeUp, pc, connection, device_cache,
          cache_last_refresh, sensor_data, device_heartbeats, refresh_failed,
          added_at, delivered, msg, run>>

(***************************************************************************)
(* MQTTIngestor.normalize_timestamp_utc                                    *)
(***************************************************************************)
\* datetime.now(timezone.utc).isoformat().replace('+00:00', 'Z'); the clock
\* of the model counts whole seconds, so no fraction is printed
Isoformat(day, sec, us) ==
    <<Tok("date", day), Lit("T"), Tok("time", sec)>>
        \o (IF us # 0 THEN <<Tok("frac6", us)>> ELSE << >>)
        \o <<Tok("off+", 0)>>

NowIso == Replace(Isoformat(now \div SecondsPerDay, now % SecondsPerDay, 0),
                  Tok("off+", 0), Lit("Z"))

\* datetime.fromisoformat(s): date, or date + separator + time with an
\* optional fraction of 3 or 6 digits and an optional offset
FromIso(s) ==
    LET n == Len(s)
        hasOff == n >= 1 /\ s[n].k \in {"off+", "off-"}
        core == IF hasOff THEN SubSeq(s, 1, n - 1) ELSE s
        c == Len(core)
        dateOnly == c = 1 /\ core[1].k = "date" /\ ~hasOff
        dateTime == /\ c \in {3, 4}
                    /\ core[1].k = "date"
                    /\ core[2].k \in {"T", " "}
                    /\ core[3].k = "time"
                    /\ (c = 4 => core[4].k \in {"frac3", "frac6"})
    IN  IF dateOnly
        THEN [ok |-> TRUE, day |-> core[1].v, sec |-> 0, us |-> 0,
              aware |-> FALSE, off |-> 0]
        ELSE IF dateTime
        THEN [ok |-> TRUE, day |-> core[1].v, sec |-> core[3].v,
              us |-> IF c = 4 THEN core[4].v ELSE 0,
              aware |-> hasOff,
              off |-> IF ~hasOff THEN 0
                      ELSE IF s[n].k = "off+" THEN s[n].v ELSE 0 - s[n].v]
        ELSE [ok |-> FALSE, day |-> 0, sec |-> 0, us |-> 0,
              aware |-> FALSE, off |-> 0]

\* ToUtcIso without the replacement of '+00:00' by 'Z'
ToUtcIso_with_offset(dt) ==
    LET total == dt.day * SecondsPerDay + dt.sec - dt.off
    IN  Isoformat(total \div SecondsPerDay, total % SecondsPerDay, dt.us)

\* dt.astimezone(timezone.utc).isoformat().replace('+00:00', 'Z')
ToUtcIso(dt) ==
    LET total == dt.day * SecondsPerDay + dt.sec - dt.off
    IN  Replace(Isoformat(total \div SecondsPerDay, total % SecondsPerDay, dt.us),
                Tok("off+", 0), Lit("Z"))

\* lines 306-321: the parse of the remaining formats
ParseToUtc(s) ==
    LET withPlus == HasChar(s, "+") \/ EndsWith(s, Lit("Z"))
        parsed == IF withPlus
                  THEN FromIso(Replace(s, Lit("Z"), Tok("off+", 0)))
                  ELSE [FromIso(s) EXCEPT !.off = 0, !.aware = TRUE]
    IN  IF parsed.ok THEN ToUtcIso(parsed) ELSE NowIso

normalize_timestamp_utc(v) ==
    IF v.t # "str" THEN NowIso
    ELSE IF EndsWith(v.s, Lit("Z")) THEN v.s
    ELSE IF EndsWith(v.s, Tok("off+", 0)) THEN Replace(v.s, Tok("off+", 0), Lit("Z"))
    ELSE IF HasChar(v.s, "T") /\ ~(\E c \in {"+", "-", "Z"} : HasChar(v.s, c))
    THEN v.s \o <<Lit("Z")>>
    ELSE ParseToUtc(v.s)

\* the timestamp of a device whose clock was never set: "1970-01-01 01:00:02"
Sentinel == <<Tok("date", 0), Lit(" "), Tok("time", 3602)>>

(***************************************************************************)
(* message.topic.split('/')                                                *)
(***************************************************************************)
RECURSIVE Split(_)
Split(s) ==
    IF \A i \in 1..Len(s) : s[i] # Lit("/")
    THEN <<s>>
    ELSE LET i == CHOOSE j \in 1..Len(s) :
                      s[j] = Lit("/") /\ \A k \in 1..(j - 1) : s[k] # Lit("/")
         IN  <<SubSeq(s, 1, i - 1)>> \o Split(SubSeq(s, i + 1, Len(s)))

(***************************************************************************)
(* DatabaseManager.  The methods are operators on the record m of the      *)
(* fields of the object and of the two tables it writes, with              *)
(*   m.ev    the store operations and outcomes so far, in order            *)
(*   m.auth  the answer of is_device_valid                                 *)
(*   m.exc   an exception is propagating                                   *)
(*   m.conflict  the upsert met a row with the same key                    *)
(*   m.old   the rows with the same key that the upsert replaced           *)
(***************************************************************************)
NoSite == "None"
EmptyDict == << >>
NoAuth == [called |-> FALSE, device |-> JNull, ok |-> FALSE, site |-> NoSite]

\* psycopg2.connect succeeds iff the store is reachable; on failure the
\* exception is re-raised and self.connection keeps its old value
connect(m) ==
    IF storeUp
    THEN [m EXCEPT !.connection = "open", !.ev = Append(@, "connect_ok")]
    ELSE [m EXCEPT !.ev = Append(@, "connect_fail"), !.exc = TRUE]

\* refresh_device_cache keeping the old cache when the query fails
refresh_device_cache_keep(m) ==
    IF m.connection = "open"
    THEN [m EXCEPT !.device_cache = registry,
                   !.cache_last_refresh = now,
                   !.refresh_failed = FALSE,
                   !.ev = Append(@, "refresh_ok")]
    ELSE [m EXCEPT !.refresh_failed = TRUE,
                   !.ev = Append(@, "refresh_fail")]

\* refresh_device_cache adding the rows read to the cache it has
refresh_device_cache_merge(m) ==
    IF m.connection = "open"
    THEN [m EXCEPT !.device_cache =
                       [d \in DOMAIN @ \cup DOMAIN registry |->
                            IF d \in DOMAIN registry THEN registry[d] ELSE @[d]],
                   !.cache_last_refresh = now,
                   !.refresh_failed = FALSE,
                   !.ev = Append(@, "refresh_ok")]
    ELSE [m EXCEPT !.device_cache = EmptyDict,
                   !.refresh_failed = TRUE,
                   !.ev = Append(@, "refresh_fail")]

refresh_device_cache(m) ==
    IF m.connection = "open"
    THEN [m EXCEPT !.device_cache = registry,
                   !.cache_last_refresh = now,
                   !.refresh_failed = FALSE,
                   !.ev = Append(@, "refresh_ok")]
    ELSE [m EXCEPT !.device_cache = EmptyDict,
                   !.refresh_failed = TRUE,
                   !.ev = Append(@, "refresh_fail")]

is_device_valid(m, d) ==
    LET m1 == IF now - m.cache_last_refresh > cache_ttl
              THEN refresh_device_cache(m)
              ELSE m
        known == d.t = "str" /\ d.s \in DOMAIN m1.device_cache
    IN  [m1 EXCEPT !.auth = [called |-> TRUE, device |-> d, ok |-> known,
                             site |-> IF known THEN m1.device_cache[d.s] ELSE NoSite]]

\* the rows of the table with the key of row
SameKey(table, row) ==
    {r \in table : r.device_mac_addr = row.device_mac_addr /\ r.time = row.time}

\* Upsert as a plain INSERT, without the ON CONFLICT clause
Upsert_no_conflict(table, row) == table \cup {row}

\* Upsert as INSERT ... ON CONFLICT DO NOTHING
Upsert_keep_first(table, row) ==
    IF SameKey(table, row) # {} THEN table ELSE table \cup {row}

\* INSERT ... ON CONFLICT (device_mac_addr, time) DO UPDATE SET ...
Upsert(table, row) == (table \ SameKey(table, row)) \cup {row}

\* insert_sensor_data without the test of device_exists
insert_sensor_data_unchecked(m, d, temperature, humidity, sensor_timestamp) ==
    LET v == is_device_valid(m, d)
        row == [time |-> sensor_timestamp, device_mac_addr |-> d.s,
                temperature |-> temperature, humidity |-> humidity,
                reception_time |-> now]
    IN  IF v.connection = "open"
        THEN [v EXCEPT !.sensor_data = Upsert(@, row),
                       !.conflict = SameKey(v.sensor_data, row) # {},
                       !.old = SameKey(v.sensor_data, row),
                       !.ev = Append(@, "write_ok")]
        ELSE connect([v EXCEPT !.ev = Append(@, "write_fail")])

\* insert_sensor_data with the two values bound to the wrong columns
insert_sensor_data_swapped(m, d, temperature, humidity, sensor_timestamp) ==
    LET v == is_device_valid(m, d)
        row == [time |-> sensor_timestamp, device_mac_addr |-> d.s,
                temperature |-> humidity, humidity |-> temperature,
                reception_time |-> now]
    IN  IF ~v.auth.ok
        THEN [v EXCEPT !.ev = Append(@, "unauthorized")]
        ELSE IF v.connection = "open"
        THEN [v EXCEPT !.sensor_data = Upsert(@, row),
                       !.conflict = SameKey(v.sensor_data, row) # {},
                       !.old = SameKey(v.sensor_data, row),
                       !.ev = Append(@, "write_ok")]
        ELSE connect([v EXCEPT !.ev = Append(@, "write_fail")])

\* insert_sensor_data running the INSERT again after the reconnect
insert_sensor_data_retry(m, d, temperature, humidity, sensor_timestamp) ==
    LET v == is_device_valid(m, d)
        row == [time |-> sensor_timestamp, device_mac_addr |-> d.s,
                temperature |-> temperature, humidity |-> humidity,
                reception_time |-> now]
        c == connect([v EXCEPT !.ev = Append(@, "write_fail")])
    IN  IF ~v.auth.ok
        THEN [v EXCEPT !.ev = Append(@, "unauthorized")]
        ELSE IF v.connection = "open"
        THEN [v EXCEPT !.sensor_data = Upsert(@, row),
                       !.conflict = SameKey(v.sensor_data, row) # {},
                       !.old = SameKey(v.sensor_data, row),
                       !.ev = Append(@, "write_ok")]
        ELSE IF c.exc THEN c
        ELSE [c EXCEPT !.sensor_data = Upsert(@, row),
                       !.ev = Append(@, "write_ok")]

insert_sensor_data(m, d, temperature, humidity, sensor_timestamp) ==
    LET v == is_device_valid(m, d)
        row == [time |-> sensor_timestamp, device_mac_addr |-> d.s,
                temperature |-> temperature, humidity |-> humidity,
                reception_time |-> now]
    IN  IF ~v.auth.ok
        THEN [v EXCEPT !.ev = Append(@, "unauthorized")]
        ELSE IF v.connection = "open"
        THEN [v EXCEPT !.sensor_data = Upsert(@, row),
                       !.conflict = SameKey(v.sensor_data, row) # {},
                       !.old = SameKey(v.sensor_data, row),
                       !.ev = Append(@, "write_ok")]
        ELSE connect([v EXCEPT !.ev = Append(@, "write_fail")])

insert_heartbeat(m, d, rssi, free_heap, uptime, min_heap, ntp_sync, timestamp) ==
    LET v == is_device_valid(m, d)
        row == [time |-> timestamp, device_mac_addr |-> d.s, rssi |-> rssi,
                free_heap |-> free_heap, uptime |-> uptime, min_heap |-> min_heap,
                ntp_sync |-> ntp_sync, reception_time |-> now]
    IN  IF ~v.auth.ok
        THEN [v EXCEPT !.ev = Append(@, "unauthorized")]
        ELSE IF v.connection = "open"
        THEN [v EXCEPT !.device_heartbeats = Upsert(@, row),
                       !.conflict = SameKey(v.device_heartbeats, row) # {},
                       !.old = SameKey(v.device_heartbeats, row),
                       !.ev = Append(@, "write_ok")]
        ELSE connect([v EXCEPT !.ev = Append(@, "write_fail")])

(***************************************************************************)
(* MQTTIngestor: the two handlers and on_message.  m.handler is the        *)
(* handler on_message dispatched to.                                       *)
(***************************************************************************)
\* an except clause that lets the exception through
Caught_reraise(m, what) == m

\* except Exception at the end of a handler or of on_message
Caught(m, what) ==
    IF m.exc THEN [m EXCEPT !.exc = FALSE, !.ev = Append(@, what)] ELSE m

\* raise inside the try block of a handler or of on_message
Raise(m, what) == [m EXCEPT !.ev = Append(@, what)]

\* handle_data_message validating with all([...]) over the bare values
handle_data_message_truthy(m, p) ==
    LET device_mac_addr == Get(p, "device_id")
        temperature == Get(p, "temperature")
        humidity == Get(p, "humidity")
        sensor_timestamp == Get(p, "timestamp")
        stamped == IF sensor_timestamp = JStr(Sentinel)
                   THEN JStr(NowIso)
                   ELSE sensor_timestamp
        t == Float(temperature)
        h == Float(humidity)
    IN  IF ~(/\ Truthy(device_mac_addr)
             /\ Truthy(temperature)
             /\ Truthy(humidity)
             /\ Truthy(sensor_timestamp))
        THEN Raise(m, "data_rejected")
        ELSE IF ~t.ok \/ ~h.ok
        THEN Raise(m, "data_error")
        ELSE Caught(insert_sensor_data(m, device_mac_addr, t.n, h.n,
                                       normalize_timestamp_utc(stamped)),
                    "handler_caught")

handle_data_message(m, p) ==
    LET device_mac_addr == Get(p, "device_id")
        temperature == Get(p, "temperature")
        humidity == Get(p, "humidity")
        sensor_timestamp == Get(p, "timestamp")
        stamped == IF sensor_timestamp = JStr(Sentinel)
                   THEN JStr(NowIso)
                   ELSE sensor_timestamp
        t == Float(temperature)
        h == Float(humidity)
    IN  IF ~(/\ Truthy(device_mac_addr)
             /\ temperature.t # "null"
             /\ humidity.t # "null"
             /\ Truthy(sensor_timestamp))
        THEN Raise(m, "data_rejected")
        ELSE IF ~t.ok \/ ~h.ok
        THEN Raise(m, "data_error")
        ELSE Caught(insert_sensor_data(m, device_mac_addr, t.n, h.n,
                                       normalize_timestamp_utc(stamped)),
                    "handler_caught")

\* x if x is not None else default
OrElse(x, default) == IF x.t = "null" THEN default ELSE x

handle_heartbeat_message(m, p) ==
    LET device_mac_addr == Get(p, "device_id")
        rssi == Get(p, "rssi")
        free_heap == Get(p, "free_heap")
        uptime == Get(p, "uptime")
        min_heap == Get(p, "min_heap")
        ntp_sync == GetDefault(p, "ntp_sync", JBool(FALSE))
        timestamp == GetDefault(p, "timestamp", JStr(NowIso))
    IN  IF ~Truthy(device_mac_addr)
        THEN Raise(m, "heartbeat_rejected")
        ELSE Caught(insert_heartbeat(m, device_mac_addr,
                                     OrElse(rssi, JNum(-999)),
                                     OrElse(free_heap, JNum(0)),
                                     OrElse(uptime, JNum(0)),
                                     OrElse(min_heap, JNum(0)),
                                     ntp_sync,
                                     normalize_timestamp_utc(timestamp)),
                    "handler_caught")

\* on_message without the comparison of the two device identifiers
on_message_no_device_check(m, topic, payload) ==
    LET topic_parts == Split(topic)
    IN  IF \/ Len(topic_parts) # 4
           \/ topic_parts[1] # Str("datayoti")
           \/ topic_parts[2] # Str("sensor")
        THEN [m EXCEPT !.ev = Append(@, "topic_ignored")]
        ELSE IF topic_parts[4] \notin {Str("data"), Str("heartbeat")}
        THEN [m EXCEPT !.ev = Append(@, "type_ignored")]
        ELSE IF payload.json = "invalid"
        THEN [m EXCEPT !.ev = Append(@, "json_error")]
        ELSE IF payload.json # "object"
        THEN Raise(m, "on_message_caught")
        ELSE IF topic_parts[4] = Str("data")
        THEN handle_data_message([m EXCEPT !.handler = "data"], payload)
        ELSE handle_heartbeat_message([m EXCEPT !.handler = "heartbeat"], payload)

\* on_message testing the number of segments only
on_message_no_prefix_check(m, topic, payload) ==
    LET topic_parts == Split(topic)
    IN  IF Len(topic_parts) # 4
        THEN [m EXCEPT !.ev = Append(@, "topic_ignored")]
        ELSE IF topic_parts[4] \notin {Str("data"), Str("heartbeat")}
        THEN [m EXCEPT !.ev = Append(@, "type_ignored")]
        ELSE IF payload.json = "invalid"
        THEN [m EXCEPT !.ev = Append(@, "json_error")]
        ELSE IF payload.json # "object"
        THEN Raise(m, "on_message_caught")
        ELSE IF Get(payload, "device_id") # JStr(topic_parts[3])
        THEN [m EXCEPT !.ev = Append(@, "mismatch_ignored")]
        ELSE IF topic_parts[4] = Str("data")
        THEN handle_data_message([m EXCEPT !.handler = "data"], payload)
        ELSE handle_heartbeat_message([m EXCEPT !.handler = "heartbeat"], payload)

on_message(m, topic, payload) ==
    LET topic_parts == Split(topic)
    IN  IF \/ Len(topic_parts) # 4
           \/ topic_parts[1] # Str("datayoti")
           \/ topic_parts[2] # Str("sensor")
        THEN [m EXCEPT !.ev = Append(@, "topic_ignored")]
        ELSE IF topic_parts[4] \notin {Str("data"), Str("heartbeat")}
        THEN [m EXCEPT !.ev = Append(@, "type_ignored")]
        ELSE IF payload.json = "invalid"
        THEN [m EXCEPT !.ev = Append(@, "json_error")]
        ELSE IF payload.json # "object"
        THEN Raise(m, "on_message_caught")
        ELSE IF Get(payload, "device_id") # JStr(topic_parts[3])
        THEN [m EXCEPT !.ev = Append(@, "mismatch_ignored")]
        ELSE Caught(IF topic_parts[4] = Str("data")
                    THEN handle_data_message([m EXCEPT !.handler = "data"],
                                             payload)
                    ELSE handle_heartbeat_message(
                             [m EXCEPT !.handler = "heartbeat"], payload),
                    "on_message_caught")

\* the finally block of start: the two releases; disconnect is what
\* mqtt_client.disconnect() does: "ok", "error" (it returns an error code,
\* as when the client never connected) or "raised" (it raises)
Finally(m, disconnect) ==
    IF disconnect = "raised"
    THEN [m EXCEPT !.ev = Append(@, "disconnect_raised"), !.exc = TRUE]
    ELSE [m EXCEPT !.ev = Append(Append(@, "disconnect_" \o disconnect), "close"),
                   !.connection = "closed"]

(***************************************************************************)
(* The inputs: devices, sites, topics and payloads.                        *)
(***************************************************************************)
D1 == Str("1C:69:20:E9:18:24")
D2 == Str("AA:BB:CC:DD:EE:FF")
Devices == {D1, D2}
\* the devices that table devices may hold; D2 is never provisioned
Provisioned == {D1}
\* the site each device is provisioned with
SiteOf(d) == IF d = D1 THEN "SITE_001" ELSE "SITE_002"

Topic(ns, family, device, kind) ==
    <<Lit(ns), Lit("/"), Lit(family), Lit("/")>> \o device
        \o <<Lit("/"), Lit(kind)>>

Topics ==
    {Topic("datayoti", "sensor", d, k) : d \in Devices, k \in {"data", "heartbeat"}}
    \cup {Topic("datayoti", "sensor", D1, "status"),
          Topic("other", "sensor", D1, "data"),
          Topic("datayoti", "actuator", D1, "heartbeat"),
          Topic("datayoti", "sensor", EmptyStr, "data"),
          <<Lit("datayoti"), Lit("/"), Lit("sensor"), Lit("/"), Lit("data")>>,
          Topic("datayoti", "sensor", D1, "data") \o <<Lit("/"), Lit("x")>>}

Keys == {"device_id", "temperature", "humidity", "timestamp", "rssi",
         "free_heap", "uptime", "min_heap", "ntp_sync"}

\* a JSON object with the given fields, every other key absent
Obj(fields) ==
    [json |-> "object",
     f |-> [k \in Keys |-> IF k \in DOMAIN fields THEN fields[k] ELSE JMissing]]

NotJson == [json |-> "invalid", f |-> [k \in Keys |-> JMissing]]
NotObject == [json |-> "nonobj", f |-> [k \in Keys |-> JMissing]]

\* "2024-03-01T10:00:00Z" and "2024-03-01T10:05:00"
TsZ == <<Tok("date", 19783), Lit("T"), Tok("time", 36000), Lit("Z")>>
TsNaive == <<Tok("date", 19783), Lit("T"), Tok("time", 36300)>>

Data(d, t, h, ts) ==
    Obj([device_id |-> d, temperature |-> t, humidity |-> h, timestamp |-> ts])

DataPayloads ==
    {Data(JStr(d), JNum(21), JNum(47), JStr(TsZ)) : d \in Devices}
    \cup {Data(JStr(D1), JNum(0), JNum(0), JStr(TsZ)),
          Data(JStr(D1), JNull, JNum(47), JStr(TsZ)),
          Data(JStr(D1), JNum(21), JMissing, JStr(TsZ)),
          Data(JStr(D1), JNum(21), JNum(47), JMissing),
          Data(JStr(D1), JNum(21), JNum(47), JStr(EmptyStr)),
          Data(JStr(D1), JStr(Str("abc")), JNum(47), JStr(TsZ)),
          Data(JStr(EmptyStr), JNum(21), JNum(47), JStr(TsZ)),
          Data(JMissing, JNum(21), JNum(47), JStr(TsZ))}

HeartbeatPayloads ==
    {Obj([device_id |-> JStr(d), rssi |-> JNum(-62), uptime |-> JNum(3600)]) :
        d \in Devices}
    \cup {Obj([device_id |-> JStr(D1), rssi |-> JNum(-70), free_heap |-> JNum(1000),
               uptime |-> JNum(60), min_heap |-> JNum(900),
               ntp_sync |-> JBool(TRUE), timestamp |-> JStr(TsZ)]),
          Obj([rssi |-> JNum(-62)])}

Payloads == DataPayloads \cup HeartbeatPayloads \cup {NotJson, NotObject}

WellFormedTopics ==
    {Topic("datayoti", "sensor", d, k) : d \in Devices, k \in {"data", "heartbeat"}}

\* the messages delivered: every payload on the data topic of D1, and the
\* other topics with the payloads that tell their cases apart
Messages ==
    ({Topic("datayoti", "sensor", D1, "data")}
         \X (DataPayloads \cup {Obj([rssi |-> JNum(-62)]), NotJson, NotObject}))
    \cup ({Topic("datayoti", "sensor", D1, "heartbeat")} \X HeartbeatPayloads)
    \cup ({Topic("datayoti", "sensor", D2, "data")}
              \X {Data(JStr(d), JNum(21), JNum(47), JStr(TsZ)) : d \in Devices})
    \cup ((Topics \ WellFormedTopics)
              \X {Data(JStr(D1), JNum(21), JNum(47), JStr(TsZ))})
    \cup {<<Topic("datayoti", "sensor", EmptyStr, "data"),
            Data(JStr(EmptyStr), JNum(21), JNum(47), JStr(TsZ))>>}

NoMessage == [topic |-> EmptyStr, payload |-> NotJson, connection |-> "None"]
NoRun == [handler |-> "none", ev |-> << >>, auth |-> NoAuth, conflict |-> FALSE,
          old |-> {}]

\* the object and the tables as the methods see them
Self ==
    [connection |-> connection, device_cache |-> device_cache,
     cache_last_refresh |-> cache_last_refresh, sensor_data |-> sensor_data,
     device_heartbeats |-> device_heartbeats, refresh_failed |-> refresh_failed,
     handler |-> "none", ev |-> << >>, auth |-> NoAuth, conflict |-> FALSE,
     old |-> {}, exc |-> FALSE]

Store(m) ==
    /\ connection' = m.connection
    /\ device_cache' = m.device_cache
    /\ cache_last_refresh' = m.cache_last_refresh
    /\ sensor_data' = m.sensor_data
    /\ device_heartbeats' = m.device_heartbeats
    /\ refresh_failed' = m.refresh_failed
    /\ run' = [handler |-> m.handler, ev |-> m.ev, auth |-> m.auth,
               conflict |-> m.conflict, old |-> m.old]

(***************************************************************************)
(* The actions.                                                            *)
(***************************************************************************)
\* a step of the environment of the running process: it delivers no message
Quiet == msg' = NoMessage /\ run' = NoRun

\* what a step of the environment leaves alone
Process ==
    <<pc, connection, device_cache, cache_last_refresh, sensor_data,
      device_heartbeats, refresh_failed, delivered>>

Init ==
    /\ now = StartTime
    /\ registry \in {EmptyDict, [d \in {D1} |-> SiteOf(d)]}
    /\ storeUp \in BOOLEAN
    /\ pc = "Stopped"
    /\ connection = "None"
    /\ device_cache = EmptyDict
    /\ cache_last_refresh = 0
    /\ sensor_data = {}
    /\ device_heartbeats = {}
    /\ refresh_failed = FALSE
    /\ added_at = 0
    /\ delivered = 0
    /\ msg = NoMessage
    /\ run = NoRun

\* mqtt_client.connect in start: up tells whether the broker answers; when it
\* does not, the exception runs the finally block and reaches main
MqttConnect(m, up) ==
    IF up
    THEN [m EXCEPT !.ev = Append(@, "mqtt_connect_ok")]
    ELSE Finally([m EXCEPT !.ev = Append(@, "mqtt_connect_fail")], "error")

\* Start going on after a failed connect instead of ending the process
Start_despite_failure ==
    /\ pc = "Stopped"
    /\ pc' = "Running"
    /\ Store(MqttConnect(
                 refresh_device_cache([connect(Self) EXCEPT !.exc = FALSE]), TRUE))
    /\ UNCHANGED <<now, registry, storeUp, added_at, delivered, msg>>

\* main: MQTTIngestor() builds the DatabaseManager (connect, then the first
\* load of the cache, which fails if the connection is lost in between); a
\* failed connect ends the process with exit(1); start() then connects to
\* the broker and enters loop_forever
Start ==
    /\ pc = "Stopped"
    /\ LET c == connect(Self)
       IN  IF c.exc
           THEN /\ pc' = "Aborted"
                /\ Store(c)
           ELSE \E lost, up \in BOOLEAN :
                    /\ pc' = IF up THEN "Running" ELSE "Aborted"
                    /\ Store(MqttConnect(
                                 refresh_device_cache(
                                     IF lost THEN [c EXCEPT !.connection = "broken"]
                                     ELSE c),
                                 up))
    /\ UNCHANGED <<now, registry, storeUp, added_at, delivered, msg>>

\* the client calls on_message with one message
Deliver(topic, payload) ==
    /\ pc = "Running"
    /\ msg' = [topic |-> topic, payload |-> payload, connection |-> connection]
    /\ \E m \in {on_message(Self, topic, payload)} :
           IF m.exc
           THEN \E disconnect \in {"ok", "raised"} :
                    pc' = "Aborted" /\ Store(Finally(m, disconnect))
           ELSE pc' = pc /\ Store(m)
    /\ UNCHANGED <<now, registry, storeUp, added_at>>

OnMessage(topic, payload) ==
    /\ delivered < MaxMessages
    /\ delivered' = delivered + 1
    /\ Deliver(topic, payload)

Tick ==
    /\ pc = "Running"
    /\ now < StartTime + MaxTicks * Quantum
    /\ now' = now + Quantum
    /\ UNCHANGED <<registry, storeUp, added_at, Process>>
    /\ Quiet

\* the store becomes unreachable: the open connection is lost with it
StoreDown ==
    /\ pc = "Running"
    /\ storeUp
    /\ storeUp' = FALSE
    /\ connection' = IF connection = "open" THEN "broken" ELSE connection
    /\ UNCHANGED <<now, registry, added_at, pc, device_cache, cache_last_refresh,
                   sensor_data, device_heartbeats, refresh_failed, delivered>>
    /\ Quiet

StoreUp ==
    /\ pc = "Running"
    /\ ~storeUp
    /\ storeUp' = TRUE
    /\ UNCHANGED <<now, registry, added_at, Process>>
    /\ Quiet

\* the open connection breaks while the store stays reachable
ConnectionLost ==
    /\ connection = "open"
    /\ connection' = "broken"
    /\ UNCHANGED <<now, registry, storeUp, added_at, pc, device_cache,
                   cache_last_refresh, sensor_data, device_heartbeats,
                   refresh_failed, delivered>>
    /\ Quiet

\* a device is provisioned in, or removed from, table devices
AddDevice(d) ==
    /\ pc = "Running"
    /\ storeUp
    /\ d \notin DOMAIN registry
    /\ registry' = [x \in DOMAIN registry \cup {d} |->
                        IF x = d THEN SiteOf(d) ELSE registry[x]]
    /\ added_at' = now
    /\ UNCHANGED <<now, storeUp, Process>>
    /\ Quiet

RemoveDevice(d) ==
    /\ pc = "Running"
    /\ storeUp
    /\ d \in DOMAIN registry
    /\ registry' = [x \in DOMAIN registry \ {d} |-> registry[x]]
    /\ added_at' = 0
    /\ UNCHANGED <<now, storeUp, Process>>
    /\ Quiet

\* KeyboardInterrupt in loop_forever: start logs it and runs the finally
\* block; an exception of disconnect() reaches main, which calls exit(1)
Shutdown ==
    /\ pc = "Running"
    /\ \E disconnect \in {"ok", "raised"} :
           /\ pc' = IF disconnect = "raised" THEN "Aborted" ELSE "Exited"
           /\ Store(Finally(Self, disconnect))
    /\ msg' = NoMessage
    /\ UNCHANGED <<now, registry, storeUp, added_at, delivered>>

Environment ==
    \/ Tick
    \/ StoreDown
    \/ StoreUp
    \/ ConnectionLost
    \/ \E d \in Provisioned : AddDevice(d)
    \/ \E d \in Provisioned : RemoveDevice(d)

Next ==
    \/ Start
    \/ \E m \in Messages : OnMessage(m[1], m[2])
    \/ Shutdown
    \/ Environment

Spec == Init /\ [][Next]_vars

\* D1 keeps publishing its reading: loop_forever calls on_message for each
\* message, one at a time; delivered counts them modulo MaxMessages + 1
Feed ==
    /\ delivered' = (delivered + 1) % (MaxMessages + 1)
    /\ Deliver(Topic("datayoti", "sensor", D1, "data"),
               Data(JStr(D1), JNum(21), JNum(47), JStr(TsZ)))

NextFair ==
    \/ Start
    \/ Feed
    \/ Environment

FairSpec == Init /\ [][NextFair]_vars /\ WF_vars(Start) /\ WF_vars(Feed)

(***************************************************************************)
(* The running process fed with the timestamp formats and the heartbeat    *)
(* payloads that the handlers and normalize_timestamp_utc tell apart.      *)
(***************************************************************************)
\* "2024-03-01 10:05:00", "2024-03-01T10:05:00.123" and "20240301T100500"
TsSpace == <<Tok("date", 19783), Lit(" "), Tok("time", 36300)>>
TsFrac == <<Tok("date", 19783), Lit("T"), Tok("time", 36300), Tok("frac3", 123000)>>
TsBasic == <<Tok("basicdate", 19783), Lit("T"), Tok("basictime", 36300)>>
\* "2024-03-01T12:00:00+02:00", "2024-03-01T05:00:00-05:00" and
\* "2024-03-01T10:00:00+00:00": the instant of TsZ
TsPlus == <<Tok("date", 19783), Lit("T"), Tok("time", 43200), Tok("off+", 7200)>>
TsMinus == <<Tok("date", 19783), Lit("T"), Tok("time", 18000), Tok("off-", 18000)>>
TsUtc == <<Tok("date", 19783), Lit("T"), Tok("time", 36000), Tok("off+", 0)>>
\* text that is no timestamp
TsText == Str("yesterday")

Stamps == {TsZ, TsNaive, TsSpace, TsFrac, TsBasic, TsPlus, TsMinus, TsUtc,
           Sentinel, TsText}

Heartbeat(ts) ==
    Obj([device_id |-> JStr(D1), rssi |-> JNum(-62), uptime |-> JNum(3600),
         timestamp |-> ts])

\* other values of the key timestamp: "", "abc+00:00", "NOT_A_TIME",
\* "2024-03-01", a number and a boolean
OtherStamps ==
    {JStr(EmptyStr), JStr(<<Lit("abc"), Tok("off+", 0)>>), JStr(Str("NOT_A_TIME")),
     JStr(<<Tok("date", 19783)>>), JNum(StartTime), JBool(TRUE)}

StampedMessages ==
    ({Topic("datayoti", "sensor", D1, "data")}
         \X ({Data(JStr(D1), JNum(21), JNum(47), JStr(ts)) : ts \in Stamps}
                 \cup {Data(JStr(D1), JNum(0), JNum(0), JStr(TsZ))}))
    \cup ({Topic("datayoti", "sensor", D1, "heartbeat")}
              \X ({Heartbeat(JStr(ts)) : ts \in Stamps}
                      \cup {Heartbeat(v) : v \in OtherStamps}
                      \cup {Heartbeat(JNull), Heartbeat(JMissing)}
                      \cup {Obj([device_id |-> JStr(D1), rssi |-> JNull,
                                  free_heap |-> JNull, uptime |-> JNull,
                                  min_heap |-> JNull, ntp_sync |-> JNull]),
                            Obj([device_id |-> JStr(D1), rssi |-> JNum(-70),
                                  free_heap |-> JNum(1000), uptime |-> JNum(60),
                                  min_heap |-> JNum(900),
                                  ntp_sync |-> JBool(TRUE)]),
                            Obj([rssi |-> JNum(-62)])}))
    \cup {<<Topic("datayoti", "sensor", EmptyStr, "heartbeat"),
            Obj([device_id |-> JStr(EmptyStr), rssi |-> JNum(-62)])>>}

StampedInit == Init /\ storeUp /\ D1 \in DOMAIN registry

StampedNext ==
    \/ Start
    \/ \E m \in StampedMessages : OnMessage(m[1], m[2])
    \/ Tick

StampedSpec == StampedInit /\ [][StampedNext]_vars

(***************************************************************************)
(* Properties.  msg and run describe the message the last step delivered.  *)
(***************************************************************************)
Delivered == msg # NoMessage

\* the handling called e on the store, or met outcome e
Did(e) == \E i \in 1..Len(run.ev) : run.ev[i] = e

\* the handling used the store: an authorization check, a query or a connect
StoreTouched ==
    \/ run.auth.called
    \/ \E e \in {"refresh_ok", "refresh_fail", "write_ok", "write_fail",
                 "connect_ok", "connect_fail"} : Did(e)

Field(key) == Get(msg.payload, key)

\* msg is a data message of device d on its own topic, with numbers for
\* temperature and humidity and a timestamp that ends with Z
ValidDataFor(d) ==
    /\ msg.topic = Topic("datayoti", "sensor", d, "data")
    /\ msg.payload.json = "object"
    /\ Field("device_id") = JStr(d)
    /\ Field("temperature").t = "num"
    /\ Field("humidity").t = "num"
    /\ Field("timestamp").t = "str"
    /\ EndsWith(Field("timestamp").s, Lit("Z"))

\* the rows of sensor_data with key (d, t)
Readings(d, t) == {r \in sensor_data : r.device_mac_addr = d /\ r.time = t}

\* C1: every row a step writes to sensor_data or device_heartbeats is a row
\* of a device that the authorization check of that step found in the cache
C1_FailClosed ==
    [][/\ \A r \in sensor_data' \ sensor_data :
              run'.auth.ok /\ r.device_mac_addr \in DOMAIN device_cache'
       /\ \A r \in device_heartbeats' \ device_heartbeats :
              run'.auth.ok /\ r.device_mac_addr \in DOMAIN device_cache']_vars

\* a valid data message of D2, absent from the cache, was handled over an
\* open connection and left no row
C1_Witness ==
    /\ ValidDataFor(D2)
    /\ msg.connection = "open"
    /\ run.auth.called /\ ~run.auth.ok
    /\ D2 \notin DOMAIN device_cache
    /\ \A r \in sensor_data : r.device_mac_addr # D2

\* C2: a valid data message of a device found in the cache, handled over an
\* open connection, leaves exactly one row with its key, holding its
\* temperature and humidity and the time of the write
C2_ValidDataStored ==
    \A d \in Devices :
        (ValidDataFor(d) /\ run.auth.ok /\ msg.connection = "open") =>
            /\ Cardinality(Readings(d, Field("timestamp").s)) = 1
            /\ \A r \in Readings(d, Field("timestamp").s) :
                   /\ r.temperature = Field("temperature").n
                   /\ r.humidity = Field("humidity").n
                   /\ r.reception_time = now

C2_Witness ==
    /\ ValidDataFor(D1)
    /\ run.auth.ok /\ run.auth.site = "SITE_001"
    /\ msg.connection = "open"
    /\ Field("temperature") = JNum(21) /\ Field("humidity") = JNum(47)
    /\ Readings(D1, TsZ) # {}

Unique(table) ==
    \A r1 \in table, r2 \in table :
        (r1.device_mac_addr = r2.device_mac_addr /\ r1.time = r2.time) => r1 = r2

\* C3: both tables hold at most one row per (device_mac_addr, time), and a
\* data message written over a row with its key leaves one row, stamped
\* with the time of this write
C3_OneRowPerKey ==
    /\ Unique(sensor_data)
    /\ Unique(device_heartbeats)
    /\ \A d \in Devices :
           (ValidDataFor(d) /\ run.conflict) =>
               /\ Cardinality(Readings(d, Field("timestamp").s)) = 1
               /\ \A r \in Readings(d, Field("timestamp").s) : r.reception_time = now

\* the data message of D1 was written a second time, later than the first
C3_Witness ==
    /\ ValidDataFor(D1)
    /\ run.conflict
    /\ delivered = 2
    /\ now > StartTime
    /\ \A r \in Readings(D1, TsZ) : r.reception_time = now /\ r.temperature = 21

\* the third segment of the topic, if it has one
TopicDevice == LET parts == Split(msg.topic) IN JStr(parts[3])

\* C4: a message whose payload names another device than the third segment
\* of its topic, or no device, reaches no handler and no store operation
C4_MismatchDropped ==
    (/\ Delivered
     /\ Len(Split(msg.topic)) >= 3
     /\ msg.payload.json = "object"
     /\ Field("device_id") # TopicDevice)
        => (run.handler = "none" /\ ~StoreTouched)

\* D2 published the readings of D1, which is in the cache, on its own topic
C4_Witness ==
    /\ msg.topic = Topic("datayoti", "sensor", D2, "data")
    /\ msg.payload = Data(JStr(D1), JNum(21), JNum(47), JStr(TsZ))
    /\ D1 \in DOMAIN device_cache
    /\ msg.connection = "open"
    /\ run.handler = "none"
    /\ sensor_data = {}

\* the topic has the four segments datayoti/sensor/<device>/<data|heartbeat>
WellFormed(topic) ==
    LET parts == Split(topic)
    IN  /\ Len(parts) = 4
        /\ parts[1] = Str("datayoti")
        /\ parts[2] = Str("sensor")
        /\ parts[4] \in {Str("data"), Str("heartbeat")}

\* C5: a handler runs only for a well-formed topic, and it is the handler of
\* the kind the topic names; any other topic reaches no handler and no store
\* operation
C5_TopicRouting ==
    Delivered =>
        /\ run.handler # "none" =>
               (WellFormed(msg.topic) /\ Split(msg.topic)[4] = Str(run.handler))
        /\ ~WellFormed(msg.topic) => (run.handler = "none" /\ ~StoreTouched)

\* datayoti/sensor/data, three segments, with a valid payload of D1
C5_Witness ==
    /\ msg.topic = <<Lit("datayoti"), Lit("/"), Lit("sensor"), Lit("/"), Lit("data")>>
    /\ msg.payload = Data(JStr(D1), JNum(21), JNum(47), JStr(TsZ))
    /\ D1 \in DOMAIN device_cache
    /\ msg.connection = "open"
    /\ run.handler = "none"
    /\ run.ev = <<"topic_ignored">>

\* C6: once D1 has been in table devices for cache_ttl and the store is
\* reachable, every authorization check of D1 answers True with its site
C6_FreshWithinTtl ==
    (/\ run.auth.called
     /\ run.auth.device = JStr(D1)
     /\ D1 \in DOMAIN registry
     /\ storeUp
     /\ now >= added_at + cache_ttl)
        => (run.auth.ok /\ run.auth.site = registry[D1])

\* C7: while D1 is registered and keeps publishing, a connection that broke
\* after a reading of D1 was stored is open again at some later time if the
\* store stays reachable, also when the cache is due for a refresh
C7_NoWedge ==
    [](( /\ pc = "Running"
         /\ connection = "broken"
         /\ storeUp
         /\ D1 \in DOMAIN registry
         /\ Readings(D1, TsZ) # {}
         /\ now - cache_last_refresh > cache_ttl )
        => <>(connection = "open" \/ ~storeUp \/ D1 \notin DOMAIN registry))

\* C8: a failed write and a failed cache refresh are each followed at once
\* by a connect, and are not run again
C8_ReconnectOnFailure ==
    \A i \in 1..Len(run.ev) :
        /\ run.ev[i] \in {"write_fail", "refresh_fail"} =>
               (i < Len(run.ev) /\ run.ev[i + 1] \in {"connect_ok", "connect_fail"})
        /\ run.ev[i] = "write_fail" => \A j \in (i + 1)..Len(run.ev) : run.ev[j] # "write_ok"
        /\ run.ev[i] = "refresh_fail" => \A j \in (i + 1)..Len(run.ev) : run.ev[j] # "refresh_ok"

\* C9: a failed refresh empties the cache and raises nothing: the check that
\* ran it answers False and returns as for an unknown device; while the last
\* refresh is a failed one the cache stays empty and due for a refresh, and
\* every authorization check runs the refresh again and answers False
C9_FailedRefresh ==
    /\ Did("refresh_fail") =>
           (device_cache = EmptyDict /\ (pc = "Running" \/ Did("mqtt_connect_fail")))
    /\ (Did("refresh_fail") /\ run.auth.called) =>
           (~run.auth.ok /\ run.ev = <<"refresh_fail", "unauthorized">>)
    /\ refresh_failed =>
           (device_cache = EmptyDict /\ now - cache_last_refresh > cache_ttl)
    /\ (refresh_failed /\ run.auth.called) => (Did("refresh_fail") /\ ~run.auth.ok)

\* the refresh failed for a message of D1, which is registered
C9_Witness ==
    /\ ValidDataFor(D1)
    /\ D1 \in DOMAIN registry
    /\ delivered = 2
    /\ refresh_failed
    /\ Did("refresh_fail")
    /\ run.auth.called /\ ~run.auth.ok

\* a required field of the data payload is absent, null or empty
Lacking ==
    \/ ~Truthy(Field("device_id"))
    \/ Field("temperature").t = "null"
    \/ Field("humidity").t = "null"
    \/ ~Truthy(Field("timestamp"))

\* C10: the data handler drops a payload that lacks a required field before
\* any authorization check or write, and takes 0 for a present value
C10_DataValidation ==
    run.handler = "data" =>
        /\ Lacking => ~StoreTouched
        /\ (/\ Truthy(Field("device_id"))
            /\ Field("temperature") = JNum(0)
            /\ Field("humidity") = JNum(0)
            /\ Truthy(Field("timestamp"))) => run.auth.called

\* a data payload of D1 with a null temperature, D1 being in the cache
C10_Witness ==
    /\ run.handler = "data"
    /\ Field("device_id") = JStr(D1)
    /\ Field("temperature") = JNull
    /\ D1 \in DOMAIN device_cache
    /\ msg.connection = "open"
    /\ run.ev = <<"data_rejected">>

(***************************************************************************)
(* Properties of the rows written.                                         *)
(***************************************************************************)
\* the rows of table that the device of msg wrote at this instant
Written(table) ==
    {r \in table : r.device_mac_addr = Field("device_id").s
                      /\ r.reception_time = now}

\* the value of an optional field: default when it is omitted or null
Expect(key, default) ==
    IF msg.payload.f[key].t \in {"missing", "null"}
    THEN default
    ELSE msg.payload.f[key]

\* C11: a heartbeat that is written has, for each optional field, the value
\* of the payload, or the documented default when the field is omitted or
\* null; a heartbeat without device_id uses the store in no way
C11_HeartbeatDefaults ==
    /\ (run.handler = "heartbeat" /\ Did("write_ok")) =>
           \E r \in Written(device_heartbeats) :
               /\ r.rssi = Expect("rssi", JNum(-999))
               /\ r.free_heap = Expect("free_heap", JNum(0))
               /\ r.min_heap = Expect("min_heap", JNum(0))
               /\ r.uptime = Expect("uptime", JNum(0))
               /\ r.ntp_sync = Expect("ntp_sync", JBool(FALSE))
               /\ msg.payload.f["timestamp"].t \in {"missing", "null"} =>
                      r.time = NowIso
    /\ (/\ Delivered
        /\ Split(msg.topic)[Len(Split(msg.topic))] = Str("heartbeat")
        /\ ~Truthy(Field("device_id"))) => ~StoreTouched

\* C12: a message stamped "1970-01-01 01:00:02" is written under the current
\* UTC time, and no row of either table is dated 1970-01-01
C12_SentinelReplaced ==
    /\ (Did("write_ok") /\ Field("timestamp") = JStr(Sentinel)) =>
           \E r \in Written(IF run.handler = "data" THEN sensor_data
                             ELSE device_heartbeats) : r.time = NowIso
    /\ \A r \in sensor_data : r.time[1] # Tok("date", 0)
    /\ \A r \in device_heartbeats : r.time[1] # Tok("date", 0)

\* the table the handler of msg writes
Table == IF run.handler = "data" THEN sensor_data ELSE device_heartbeats

\* v is the text of a date and a time of day without offset and without Z
IsNaive(v) ==
    /\ v.t = "str"
    /\ Len(v.s) \in {3, 4}
    /\ v.s[2] \in {Lit("T"), Lit(" ")}
    /\ v.s[Len(v.s)].k \in {"time", "basictime", "frac3", "frac6"}

\* C13: a naive timestamp, other than the 1970 sentinel, is written as the
\* same text followed by Z
C13_NaiveAppendsZ ==
    (/\ Did("write_ok")
     /\ IsNaive(Field("timestamp"))
     /\ Field("timestamp") # JStr(Sentinel)) =>
        \E r \in Written(Table) : r.time = Field("timestamp").s \o <<Lit("Z")>>

\* v is the text of a date and a time of day followed by a UTC offset
HasOffset(v) ==
    /\ v.t = "str"
    /\ Len(v.s) = 4
    /\ v.s[4].k \in {"off+", "off-"}

\* seconds since 1970-01-01T00:00:00 of the date and time of day in s
Seconds(s) == s[1].v * SecondsPerDay + s[3].v

\* seconds east of UTC of the offset that ends s
Offset(s) == IF s[Len(s)].k = "off+" THEN s[Len(s)].v ELSE 0 - s[Len(s)].v

\* C14: a timestamp with a UTC offset is written as the Z-suffixed text of
\* the same instant: its local time minus its offset
C14_OffsetToUtc ==
    (Did("write_ok") /\ HasOffset(Field("timestamp"))) =>
        \E r \in Written(Table) :
            /\ EndsWith(r.time, Lit("Z"))
            /\ Seconds(r.time) =
                   Seconds(Field("timestamp").s) - Offset(Field("timestamp").s)

(***************************************************************************)
(* Properties of startup, shutdown and failures.                           *)
(***************************************************************************)
\* C15: whenever the process leaves the receive loop, disconnect is attempted
\* and close is attempted right after it, whatever disconnect did
C15_BothReleases ==
    /\ pc = "Exited" => Did("disconnect_ok")
    /\ \A i \in 1..Len(run.ev) :
           run.ev[i] \in {"disconnect_ok", "disconnect_error", "disconnect_raised"}
               => (i < Len(run.ev) /\ run.ev[i + 1] = "close")

\* C16: whatever the message and whatever the store does, on_message returns
\* without an exception: the process is still in loop_forever after it and
\* has released nothing
C16_NeverCrashes ==
    Delivered => (pc = "Running" /\ ~Did("close") /\ ~Did("disconnect_raised"))

\* the write failed and the reconnect failed too: connect() raised inside
\* the handler, which logged it
C16_Witness ==
    /\ Delivered
    /\ Did("write_fail")
    /\ Did("connect_fail")
    /\ Did("handler_caught")
    /\ pc = "Running"

\* the number of INSERT statements among the events ev
Attempts(ev) ==
    Cardinality({i \in 1..Len(ev) : ev[i] \in {"write_ok", "write_fail"}})

\* C17: a step runs at most one INSERT; a step whose INSERT fails changes no
\* table, and a row enters a table only in the step that handles the
\* message it comes from, whose INSERT succeeds
C17_AtMostOnce ==
    [][/\ Attempts(run'.ev) <= 1
       /\ Did("write_fail")' =>
              (sensor_data' = sensor_data /\ device_heartbeats' = device_heartbeats)
       /\ \A r \in sensor_data' \ sensor_data :
              /\ Delivered' /\ run'.handler = "data" /\ Did("write_ok")'
              /\ r.device_mac_addr = Field("device_id")'.s
              /\ r.temperature = Float(Field("temperature")').n
              /\ r.humidity = Float(Field("humidity")').n
              /\ r.reception_time = now'
       /\ \A r \in device_heartbeats' \ device_heartbeats :
              /\ Delivered' /\ run'.handler = "heartbeat" /\ Did("write_ok")'
              /\ r.device_mac_addr = Field("device_id")'.s
              /\ r.reception_time = now']_vars

\* the INSERT of a reading of D1 failed, the reconnect succeeded, and the
\* reading is not in sensor_data
C17_Witness ==
    /\ ValidDataFor(D1)
    /\ run.ev = <<"write_fail", "connect_ok">>
    /\ connection = "open"
    /\ Readings(D1, Field("timestamp").s) = {}

\* C18: a refresh that succeeds makes the cache the whole of table devices
\* and stamps it with the time of the read, one that fails empties it, and
\* nothing else changes the cache or its stamp; an authorization is granted
\* from the cache, with its site, no later than cache_ttl after the stamp
C18_CacheSnapshot ==
    [][/\ Did("refresh_ok")' =>
              (device_cache' = registry' /\ cache_last_refresh' = now')
       /\ Did("refresh_fail")' =>
              (device_cache' = EmptyDict /\ cache_last_refresh' = cache_last_refresh)
       /\ (~Did("refresh_ok")' /\ ~Did("refresh_fail")') =>
              UNCHANGED <<device_cache, cache_last_refresh>>
       /\ run'.auth.ok =>
              /\ run'.auth.device.s \in DOMAIN device_cache'
              /\ run'.auth.site = device_cache'[run'.auth.device.s]
              /\ now' - cache_last_refresh' <= cache_ttl]_vars

\* D1 wrote a reading, was deleted from table devices, and is refused once
\* the cache has been read again
C18_Witness ==
    /\ ValidDataFor(D1)
    /\ Readings(D1, Field("timestamp").s) # {}
    /\ D1 \notin DOMAIN registry
    /\ Did("refresh_ok")
    /\ run.auth.called /\ ~run.auth.ok
    /\ device_cache = EmptyDict

\* row r holds the value of every field that the payload of msg gives
HoldsPayload(r) ==
    IF run.handler = "data"
    THEN /\ r.temperature = Float(Field("temperature")).n
         /\ r.humidity = Float(Field("humidity")).n
    ELSE \A key \in {"rssi", "free_heap", "uptime", "min_heap", "ntp_sync"} :
             Field(key) # JNull => r[key] = Field(key)

\* C19: after a write, in either table, the only row with the key written
\* is the one of this write: it holds the values of this message and the
\* time of this write, and the rows it met under its key are gone
C19_LastWriteWins ==
    Did("write_ok") =>
        \E r \in Written(Table) :
            /\ HoldsPayload(r)
            /\ SameKey(Table, r) = {r}
            /\ run.old \subseteq SameKey(run.old, r)

\* a heartbeat of D1 with rssi -70 was written over one with the same key
\* and rssi -62
C19_Witness ==
    /\ run.handler = "heartbeat"
    /\ Did("write_ok")
    /\ Field("rssi") = JNum(-70)
    /\ \E o \in run.old : o.rssi = JNum(-62)
    /\ \A r \in Written(device_heartbeats) : r.rssi = JNum(-70)

\* C20: when the first connect to the store fails, the process ends with
\* exit(1) having done nothing else: no load of the cache, no connect to the
\* broker, no message handled, then or later; when only the first load of
\* the cache fails, the process runs with an empty cache
C20_StartupFailure ==
    [][/\ (pc = "Stopped" /\ Did("connect_fail")') =>
              (pc' = "Aborted" /\ run'.ev = <<"connect_fail">>)
       /\ pc = "Aborted" =>
              (pc' = "Aborted" /\ delivered' = delivered /\ ~Delivered')
       /\ (pc = "Stopped" /\ Did("refresh_fail")' /\ Did("mqtt_connect_ok")') =>
              (pc' = "Running" /\ device_cache' = EmptyDict)]_vars

\* the store refused the first connection: the process has ended
C20_Witness ==
    /\ pc = "Aborted"
    /\ run.ev = <<"connect_fail">>
    /\ connection = "None"
    /\ delivered = 0
    /\ sensor_data = {} /\ device_heartbeats = {}

(***************************************************************************)
(* Properties of normalize_timestamp_utc as a function.                    *)
(***************************************************************************)
\* C21: whatever the value of timestamp in the message, a string or not,
\* normalize_timestamp_utc gives a text that ends with Z and that it gives
\* back unchanged; so it is with the time of every row written
C21_NormalizeIdempotent ==
    /\ Delivered =>
           LET out == normalize_timestamp_utc(Field("timestamp"))
           IN  /\ EndsWith(out, Lit("Z"))
               /\ normalize_timestamp_utc(JStr(out)) = out
    /\ \A r \in sensor_data :
           EndsWith(r.time, Lit("Z")) /\ normalize_timestamp_utc(JStr(r.time)) = r.time
    /\ \A r \in device_heartbeats :
           EndsWith(r.time, Lit("Z")) /\ normalize_timestamp_utc(JStr(r.time)) = r.time

\* a heartbeat whose timestamp is a number was written under the current
\* time
C21_Witness ==
    /\ run.handler = "heartbeat"
    /\ Did("write_ok")
    /\ Field("timestamp").t = "num"
    /\ \E r \in Written(device_heartbeats) : r.time = NowIso
====
